---- MODULE Spec2Model ----
(***************************************************************************)
(* Model of the algorithmic core of the repository:                        *)
(*   UnionFind        (src/src/feature1_memory/tracker.py)                 *)
(*   GraphTraverser   (src/src/feature1_memory/tracker.py)                 *)
(*   CallGraphBuilder (src/src/feature3_callgraph/builder.py)              *)
(*   HashTableAllocator (src/src/feature1_memory/tracker.py)               *)
(* Each structure has its own specification (SpecUF, SpecGT, SpecCG,       *)
(* SpecHT); the variables of the other structures stay at their initial    *)
(* value.                                                                  *)
(***************************************************************************)
EXTENDS Integers, Sequences, FiniteSets, TLC

VARIABLES parent, rank, connected, ufRet,
          children, root, maxDepth, dfsOut, bfsOut,
          graph, functions, topo, sccs, callLog,
          allocations, total_allocated, tracked, statsOut

ufVars == <<parent, rank, connected, ufRet>>
gtVars == <<children, root, maxDepth, dfsOut, bfsOut>>
cgVars == <<graph, functions, topo, sccs, callLog>>
htVars == <<allocations, total_allocated, tracked, statsOut>>
vars == <<parent, rank, connected, ufRet, children, root, maxDepth, dfsOut, bfsOut, graph, functions, topo, sccs, callLog, allocations, total_allocated, tracked, statsOut>>

\* Largest element handed to the UnionFind (the test registers 0..4).
MaxElem == 4

Elements == 0 .. MaxElem

\* "no value": the call returned None, or raised before returning.
None == -1

(***************************************************************************)
(* UnionFind                                                               *)
(***************************************************************************)

\* self.parent = {} ; self.rank = {} : two dicts, modelled as functions whose
\* DOMAIN is the set of keys.
EmptyDict == [e \in {} |-> None]

DictPut(d, k, v) == [e \in (DOMAIN d) \cup {k} |-> IF e = k THEN v ELSE d[e]]

make_set_reset(p, rk, x) ==
  [parent |-> DictPut(p, x, x), rank |-> DictPut(rk, x, 0)]

make_set(p, rk, x) ==
  IF x \notin DOMAIN p
    THEN [parent |-> DictPut(p, x, x), rank |-> DictPut(rk, x, 0)]
    ELSE [parent |-> p, rank |-> rk]

\* find(x): self.parent[x] raises KeyError when x is no key of the dict;
\* otherwise recurse to the root and re-point x to it.
RECURSIVE find(_, _)
find_autoreg(p, x) ==
  IF x \notin DOMAIN p
    THEN [parent |-> DictPut(p, x, x), raised |-> FALSE, value |-> x]
    ELSE IF p[x] /= x
      THEN LET r == find(p, p[x])
           IN  IF r.raised
                 THEN r
                 ELSE [parent |-> [r.parent EXCEPT ![x] = r.value],
                       raised |-> FALSE, value |-> r.value]
      ELSE [parent |-> p, raised |-> FALSE, value |-> p[x]]

find_no_compression(p, x) ==
  IF x \notin DOMAIN p
    THEN [parent |-> p, raised |-> TRUE, value |-> None]
    ELSE IF p[x] /= x
      THEN LET r == find(p, p[x])
           IN  IF r.raised
                 THEN r
                 ELSE [parent |-> r.parent, raised |-> FALSE, value |-> r.value]
      ELSE [parent |-> p, raised |-> FALSE, value |-> p[x]]

find(p, x) ==
  IF x \notin DOMAIN p
    THEN [parent |-> p, raised |-> TRUE, value |-> None]
    ELSE IF p[x] /= x
      THEN LET r == find(p, p[x])
           IN  IF r.raised
                 THEN r
                 ELSE [parent |-> [r.parent EXCEPT ![x] = r.value],
                       raised |-> FALSE, value |-> r.value]
      ELSE [parent |-> p, raised |-> FALSE, value |-> p[x]]

\* The three branches of union once both roots are known and differ.
link_roots_tie_reversed(p, rk, root_x, root_y) ==
  IF rk[root_x] < rk[root_y]
    THEN [parent |-> [p EXCEPT ![root_x] = root_y], rank |-> rk]
    ELSE IF rk[root_x] > rk[root_y]
      THEN [parent |-> [p EXCEPT ![root_y] = root_x], rank |-> rk]
      ELSE [parent |-> [p EXCEPT ![root_x] = root_y],
            rank |-> [rk EXCEPT ![root_y] = rk[root_y] + 1]]

link_roots_both_ways(p, rk, root_x, root_y) ==
  IF rk[root_x] < rk[root_y]
    THEN [parent |-> [p EXCEPT ![root_x] = root_y], rank |-> rk]
    ELSE IF rk[root_x] > rk[root_y]
      THEN [parent |-> [p EXCEPT ![root_y] = root_x], rank |-> rk]
      ELSE [parent |-> [p EXCEPT ![root_y] = root_x, ![root_x] = root_y],
            rank |-> [rk EXCEPT ![root_x] = rk[root_x] + 1]]

link_roots_no_rank_bump(p, rk, root_x, root_y) ==
  IF rk[root_x] < rk[root_y]
    THEN [parent |-> [p EXCEPT ![root_x] = root_y], rank |-> rk]
    ELSE [parent |-> [p EXCEPT ![root_y] = root_x], rank |-> rk]

link_roots_always_bumps(p, rk, root_x, root_y) ==
  IF rk[root_x] < rk[root_y]
    THEN [parent |-> [p EXCEPT ![root_x] = root_y],
          rank |-> [rk EXCEPT ![root_y] = rk[root_y] + 1]]
    ELSE [parent |-> [p EXCEPT ![root_y] = root_x],
          rank |-> [rk EXCEPT ![root_x] = rk[root_x] + 1]]

link_roots(p, rk, root_x, root_y) ==
  IF rk[root_x] < rk[root_y]
    THEN [parent |-> [p EXCEPT ![root_x] = root_y], rank |-> rk]
    ELSE IF rk[root_x] > rk[root_y]
      THEN [parent |-> [p EXCEPT ![root_y] = root_x], rank |-> rk]
      ELSE [parent |-> [p EXCEPT ![root_y] = root_x],
            rank |-> [rk EXCEPT ![root_x] = rk[root_x] + 1]]

union_nolink(p, rk, x, y) ==
  LET fx == find(p, x)
  IN  IF fx.raised
        THEN [parent |-> fx.parent, rank |-> rk, raised |-> TRUE]
        ELSE LET fy == find(fx.parent, y)
             IN  [parent |-> fy.parent, rank |-> rk, raised |-> fy.raised]

union_autoreg(p, rk, x, y) ==
  LET m1 == make_set(p, rk, x)
      m2 == make_set(m1.parent, m1.rank, y)
      fx == find(m2.parent, x)
      fy == find(fx.parent, y)
  IN  IF fx.value = fy.value
        THEN [parent |-> fy.parent, rank |-> m2.rank, raised |-> FALSE]
        ELSE LET l == link_roots(fy.parent, m2.rank, fx.value, fy.value)
             IN  [parent |-> l.parent, rank |-> l.rank, raised |-> FALSE]

union_no_early_return(p, rk, x, y) ==
  LET fx == find(p, x)
  IN  IF fx.raised
        THEN [parent |-> fx.parent, rank |-> rk, raised |-> TRUE]
        ELSE LET fy == find(fx.parent, y)
             IN  IF fy.raised
                   THEN [parent |-> fy.parent, rank |-> rk, raised |-> TRUE]
                   ELSE LET l == link_roots(fy.parent, rk, fx.value, fy.value)
                        IN  [parent |-> l.parent, rank |-> l.rank, raised |-> FALSE]

union(p, rk, x, y) ==
  LET fx == find(p, x)
  IN  IF fx.raised
        THEN [parent |-> fx.parent, rank |-> rk, raised |-> TRUE]
        ELSE LET fy == find(fx.parent, y)
             IN  IF fy.raised
                   THEN [parent |-> fy.parent, rank |-> rk, raised |-> TRUE]
                   ELSE IF fx.value = fy.value
                     THEN [parent |-> fy.parent, rank |-> rk, raised |-> FALSE]
                     ELSE LET l == link_roots(fy.parent, rk, fx.value, fy.value)
                          IN  [parent |-> l.parent, rank |-> l.rank, raised |-> FALSE]

\* History of the union calls: the transitive closure of the pairs that
\* were unioned, kept as a symmetric relation on Elements (pairs <<e, e>> are
\* left out: an element is always connected to itself). Adding the pair
\* {x, y} to a closed relation connects everything connected to x with
\* everything connected to y.
ConnectedTo(R, x) == {x} \cup {e \in Elements : <<x, e>> \in R}

AddPair(R, x, y) ==
  LET both == ConnectedTo(R, x) \cup ConnectedTo(R, y)
  IN  R \cup {pr \in both \X both : pr[1] /= pr[2]}

\* What the last call gave back to its caller: which method it was, whether
\* it raised, and the value it returned.
Ret(op, raised, value) == [op |-> op, raised |-> raised, value |-> value]

MakeSet(x) ==
  LET m == make_set(parent, rank, x)
  IN  /\ parent' = m.parent
      /\ rank' = m.rank
      /\ ufRet' = Ret("make_set", FALSE, None)
      /\ UNCHANGED <<connected, gtVars, cgVars, htVars>>

Find(x) ==
  LET f == find(parent, x)
  IN  /\ parent' = f.parent
      /\ ufRet' = Ret("find", f.raised, f.value)
      /\ UNCHANGED <<rank, connected, gtVars, cgVars, htVars>>

Union(x, y) ==
  LET u == union(parent, rank, x, y)
  IN  /\ parent' = u.parent
      /\ rank' = u.rank
      /\ ufRet' = Ret("union", u.raised, None)
      /\ connected' = IF u.raised
                        THEN connected
                        ELSE AddPair(connected, x, y)
      /\ UNCHANGED <<gtVars, cgVars, htVars>>

UFNext ==
  \/ \E x \in Elements : MakeSet(x)
  \/ \E x \in Elements : Find(x)
  \/ \E x \in Elements, y \in Elements : Union(x, y)

(***************************************************************************)
(* GraphTraverser                                                          *)
(***************************************************************************)

\* The identities (id(obj)) of the objects of the traversed graph.
Objects == {"a", "b", "c", "d"}

NoObject == "none"

\* Largest number of references (children entries) in the object graph.
MaxRefs == 4

\* Largest max_depth argument; the smallest is -1 (max_depth is any int).
MaxDepthArg == 2

\* The default of the max_depth parameter.
DefaultMaxDepth == 10

Depths == ((0 - 1) .. MaxDepthArg) \cup {DefaultMaxDepth}

\* The object the traversals start from. The objects differ in name only, so
\* every graph with another root is a renaming of one rooted here.
HeadObject == "a"

\* children[o] is what the traversal enumerates for o, in order: the values
\* of o.__dict__, the items of a list or tuple, the values of a dict, and
\* nothing for any other object.
NoChildren == [o \in Objects |-> <<>>]

RECURSIVE SumLen(_, _)
SumLen(ch, S) ==
  IF S = {} THEN 0
  ELSE LET o == CHOOSE e \in S : TRUE IN Len(ch[o]) + SumLen(ch, S \ {o})

\* dfs: _dfs_helper(current, depth) with the closure variable visited; order
\* logs each visit with its recursion depth.
RECURSIVE dfs_helper(_, _, _, _, _)
RECURSIVE dfs_each(_, _, _, _, _)
dfs_helper_revisits(ch, max_depth, st, current, depth) ==
  IF depth > max_depth
    THEN st
    ELSE dfs_each(ch, max_depth,
                  [visited |-> st.visited \cup {current},
                   order |-> Append(st.order, <<current, depth>>)],
                  ch[current], depth + 1)

dfs_helper_cuts_early(ch, max_depth, st, current, depth) ==
  IF depth >= max_depth \/ current \in st.visited
    THEN st
    ELSE dfs_each(ch, max_depth,
                  [visited |-> st.visited \cup {current},
                   order |-> Append(st.order, <<current, depth>>)],
                  ch[current], depth + 1)

dfs_helper_post_order(ch, max_depth, st, current, depth) ==
  IF depth > max_depth \/ current \in st.visited
    THEN st
    ELSE LET st1 == dfs_each(ch, max_depth, st, ch[current], depth + 1)
         IN  [visited |-> st1.visited \cup {current},
              order |-> Append(st1.order, <<current, depth>>)]

dfs_helper_one_deeper(ch, max_depth, st, current, depth) ==
  IF depth > max_depth + 1 \/ current \in st.visited
    THEN st
    ELSE dfs_each(ch, max_depth,
                  [visited |-> st.visited \cup {current},
                   order |-> Append(st.order, <<current, depth>>)],
                  ch[current], depth + 1)

dfs_helper(ch, max_depth, st, current, depth) ==
  IF depth > max_depth \/ current \in st.visited
    THEN st
    ELSE dfs_each(ch, max_depth,
                  [visited |-> st.visited \cup {current},
                   order |-> Append(st.order, <<current, depth>>)],
                  ch[current], depth + 1)

\* the for loop of _dfs_helper over the remaining children
dfs_each(ch, max_depth, st, items, depth) ==
  IF items = <<>>
    THEN st
    ELSE dfs_each(ch, max_depth,
                  dfs_helper(ch, max_depth, st, Head(items), depth),
                  Tail(items), depth)

dfs(ch, obj, max_depth) ==
  dfs_helper(ch, max_depth, [visited |-> {}, order |-> <<>>], obj, 0)

\* bfs: the for loop over the children of the dequeued node; a child not yet
\* in visited is added to it and queued one level deeper.
RECURSIVE bfs_scan(_, _, _)
bfs_scan(st, items, depth) ==
  IF items = <<>>
    THEN st
    ELSE LET c == Head(items)
         IN  bfs_scan(IF c \notin st.visited
                        THEN [visited |-> st.visited \cup {c},
                              queue |-> Append(st.queue, <<c, depth + 1>>),
                              enq |-> Append(st.enq, <<c, depth + 1>>),
                              deq |-> st.deq,
                              events |-> Append(st.events, <<"enq", c, depth + 1>>)]
                        ELSE st,
                      Tail(items), depth)

\* bfs: the while loop; enq and deq log the queue traffic, events logs both
\* in the order they happen.
RECURSIVE bfs_loop(_, _, _)
bfs_loop_pops_last(ch, max_depth, st) ==
  IF st.queue = <<>>
    THEN st
    ELSE LET last == st.queue[Len(st.queue)]
             current == last[1]
             depth == last[2]
             st1 == [visited |-> st.visited,
                     queue |-> SubSeq(st.queue, 1, Len(st.queue) - 1),
                     enq |-> st.enq, deq |-> Append(st.deq, last),
                     events |-> Append(st.events, <<"deq", current, depth>>)]
         IN  IF depth >= max_depth
               THEN bfs_loop(ch, max_depth, st1)
               ELSE bfs_loop(ch, max_depth, bfs_scan(st1, ch[current], depth))

bfs_loop_expands_at_limit(ch, max_depth, st) ==
  IF st.queue = <<>>
    THEN st
    ELSE LET current == Head(st.queue)[1]
             depth == Head(st.queue)[2]
             st1 == [visited |-> st.visited, queue |-> Tail(st.queue),
                     enq |-> st.enq, deq |-> Append(st.deq, Head(st.queue)),
                     events |-> Append(st.events, <<"deq", current, depth>>)]
         IN  IF depth > max_depth
               THEN bfs_loop(ch, max_depth, st1)
               ELSE bfs_loop(ch, max_depth, bfs_scan(st1, ch[current], depth))

bfs_loop(ch, max_depth, st) ==
  IF st.queue = <<>>
    THEN st
    ELSE LET current == Head(st.queue)[1]
             depth == Head(st.queue)[2]
             st1 == [visited |-> st.visited, queue |-> Tail(st.queue),
                     enq |-> st.enq, deq |-> Append(st.deq, Head(st.queue)),
                     events |-> Append(st.events, <<"deq", current, depth>>)]
         IN  IF depth >= max_depth
               THEN bfs_loop(ch, max_depth, st1)
               ELSE bfs_loop(ch, max_depth, bfs_scan(st1, ch[current], depth))

bfs(ch, obj, max_depth) ==
  bfs_loop(ch, max_depth,
           [visited |-> {obj}, queue |-> << <<obj, 0>> >>,
            enq |-> << <<obj, 0>> >>, deq |-> <<>>,
            events |-> << <<"enq", obj, 0>> >>])

NoDfs == [done |-> FALSE, visited |-> {}, order |-> <<>>]

NoBfs == [done |-> FALSE, visited |-> {}, enq |-> <<>>, deq |-> <<>>, events |-> <<>>]

\* The objects that own or are a reference of the graph built so far.
InGraph(ch) ==
  {HeadObject} \cup {o \in Objects : ch[o] /= <<>>}
               \cup UNION {{ch[o][i] : i \in 1 .. Len(ch[o])} : o \in Objects}

\* The driver creates its objects one after the other (head, head.next,
\* head.next.next): an object enters the graph after the objects created before it.
ObjectOrder == <<"a", "b", "c", "d">>

CreatedInOrder(S) ==
  \A i \in 1 .. Len(ObjectOrder) :
    ObjectOrder[i] \in S => \A j \in 1 .. i : ObjectOrder[j] \in S

\* The driver makes object o reference object c (o.next = c, o.append(c)):
\* c becomes the last child of o. The graph is built before it is traversed.
Link(o, c) ==
  /\ root = NoObject
  /\ CreatedInOrder(InGraph(children) \cup {o})
  /\ CreatedInOrder(InGraph(children) \cup {o, c})
  /\ SumLen(children, Objects) < MaxRefs
  /\ children' = [children EXCEPT ![o] = Append(@, c)]
  /\ UNCHANGED <<root, maxDepth, dfsOut, bfsOut, ufVars, cgVars, htVars>>

\* The two traversals are called with the same arguments on the same graph;
\* each keeps the set it returned.
SameCall(obj, max_depth) ==
  \/ root = NoObject
  \/ root = obj /\ maxDepth = max_depth

Dfs_unlinks(obj, max_depth) ==
  /\ SameCall(obj, max_depth)
  /\ LET r == dfs(children, obj, max_depth)
     IN  dfsOut' = [done |-> TRUE, visited |-> r.visited, order |-> r.order]
  /\ root' = obj
  /\ maxDepth' = max_depth
  /\ children' = [children EXCEPT ![obj] = <<>>]
  /\ UNCHANGED <<bfsOut, ufVars, cgVars, htVars>>

\* A traversal may be called again with the same arguments: the set it
\* returns replaces the one kept.
Dfs(obj, max_depth) ==
  /\ SameCall(obj, max_depth)
  /\ LET r == dfs(children, obj, max_depth)
     IN  dfsOut' = [done |-> TRUE, visited |-> r.visited, order |-> r.order]
  /\ root' = obj
  /\ maxDepth' = max_depth
  /\ UNCHANGED <<children, bfsOut, ufVars, cgVars, htVars>>

Bfs(obj, max_depth) ==
  /\ SameCall(obj, max_depth)
  /\ LET r == bfs(children, obj, max_depth)
     IN  bfsOut' = [done |-> TRUE, visited |-> r.visited, enq |-> r.enq, deq |-> r.deq,
                    events |-> r.events]
  /\ root' = obj
  /\ maxDepth' = max_depth
  /\ UNCHANGED <<children, dfsOut, ufVars, cgVars, htVars>>

GTNext ==
  \/ \E o \in Objects, c \in Objects : Link(o, c)
  \/ \E d \in Depths : Dfs(HeadObject, d)
  \/ \E d \in Depths : Bfs(HeadObject, d)

(***************************************************************************)
(* CallGraphBuilder                                                        *)
(***************************************************************************)

\* The function names handed to add_call.
Funcs == {"A", "B", "C", "D"}

\* Largest number of add_call calls.
MaxCalls == 4

\* self.graph is a defaultdict(list): reading a caller that has no entry
\* gives the empty list, so graph is a function on all names, <<>> by default.
NoCalls == [f \in Funcs |-> <<>>]

\* The orders in which "for node in self.functions" may enumerate the set S
\* (a Python set of strings has no defined iteration order).
RECURSIVE Orders(_)
Orders(S) ==
  IF S = {} THEN {<<>>}
  ELSE UNION {{<<e>> \o o : o \in Orders(S \ {e})} : e \in S}

Min(a, b) == IF a < b THEN a ELSE b

Occurrences(seq, n) == Cardinality({i \in 1 .. Len(seq) : seq[i] = n})

RECURSIVE CallsTo(_, _, _)
CallsTo(g, S, n) ==
  IF S = {} THEN 0
  ELSE LET f == CHOOSE e \in S : TRUE IN Occurrences(g[f], n) + CallsTo(g, S \ {f}, n)

\* in_degree after the two loops that fill it: one per edge into the node.
in_degree_of(g, fs) == [n \in fs |-> CallsTo(g, Funcs, n)]

\* "if in_degree[node] == 0" of the seeding list comprehension
is_seed_any(deg) == TRUE

is_seed(deg) == deg = 0

\* "if in_degree[neighbor] == 0" after the decrement
is_ready_off_by_one(deg) == deg = 1

is_ready(deg) == deg = 0

\* topological_sort: the for loop over the successors of the dequeued node
RECURSIVE kahn_relax(_, _)
kahn_relax(st, items) ==
  IF items = <<>>
    THEN st
    ELSE LET neighbor == Head(items)
             deg == st.in_degree[neighbor] - 1
         IN  kahn_relax([in_degree |-> [st.in_degree EXCEPT ![neighbor] = deg],
                         queue |-> IF is_ready(deg) THEN Append(st.queue, neighbor)
                                                    ELSE st.queue,
                         result |-> st.result],
                        Tail(items))

\* topological_sort: the while loop
RECURSIVE kahn_loop(_, _)
kahn_loop(g, st) ==
  IF st.queue = <<>>
    THEN st
    ELSE LET node == Head(st.queue)
         IN  kahn_loop(g, kahn_relax([in_degree |-> st.in_degree,
                                      queue |-> Tail(st.queue),
                                      result |-> Append(st.result, node)],
                                     g[node]))

\* The members of the initial queue: "node for node in self.functions if
\* in_degree[node] == 0".
seed_set(g, fs) == {n \in fs : is_seed(in_degree_of(g, fs)[n])}

\* seeds: the initial queue, i.e. seed_set in the order in which the set
\* self.functions enumerates it.
topological_sort(g, fs, seeds) ==
  kahn_loop(g, [in_degree |-> in_degree_of(g, fs), queue |-> seeds, result |-> <<>>]).result

\* detect_cycles: "lowlinks[node] = min(lowlinks[node], lowlinks[successor])"
low_after_child_kept(low_node, low_successor) == low_node

low_after_child(low_node, low_successor) == Min(low_node, low_successor)

\* detect_cycles: "lowlinks[node] = min(lowlinks[node], index[successor])"
low_after_back_kept(low_node, index_successor) == low_node

low_after_back(low_node, index_successor) == Min(low_node, index_successor)

\* detect_cycles: "if len(component) > 1"
keep_component_any(component) == Len(component) >= 1

keep_component(component) == Len(component) > 1

\* detect_cycles: the "while True" loop that pops one component off the stack
RECURSIVE sc_pop(_, _, _)
sc_pop(st, node, component) ==
  LET successor == st.stack[Len(st.stack)]
      comp == Append(component, successor)
      st1 == [st EXCEPT !.stack = SubSeq(st.stack, 1, Len(st.stack) - 1),
                        !.on_stack = st.on_stack \ {successor}]
  IN  IF successor = node
        THEN [st1 EXCEPT !.sccs = IF keep_component(comp) THEN Append(st.sccs, comp)
                                                           ELSE st.sccs]
        ELSE sc_pop(st1, node, comp)

\* detect_cycles: strongconnect(node), and its for loop over the successors
RECURSIVE strongconnect(_, _, _)
RECURSIVE sc_each(_, _, _, _)
sc_each(g, st, node, items) ==
  IF items = <<>>
    THEN st
    ELSE LET successor == Head(items)
         IN  IF successor \notin DOMAIN st.index
               THEN LET st1 == strongconnect(g, st, successor)
                    IN  sc_each(g,
                                [st1 EXCEPT !.lowlinks[node] =
                                   low_after_child(st1.lowlinks[node], st1.lowlinks[successor])],
                                node, Tail(items))
               ELSE IF successor \in st.on_stack
                 THEN sc_each(g,
                              [st EXCEPT !.lowlinks[node] =
                                 low_after_back(st.lowlinks[node], st.index[successor])],
                              node, Tail(items))
                 ELSE sc_each(g, st, node, Tail(items))

strongconnect(g, st, node) ==
  LET st1 == [index_counter |-> st.index_counter + 1,
              stack |-> Append(st.stack, node),
              lowlinks |-> DictPut(st.lowlinks, node, st.index_counter),
              index |-> DictPut(st.index, node, st.index_counter),
              on_stack |-> st.on_stack \cup {node},
              sccs |-> st.sccs]
      st2 == sc_each(g, st1, node, g[node])
  IN  IF st2.lowlinks[node] = st2.index[node]
        THEN sc_pop(st2, node, <<>>)
        ELSE st2

\* detect_cycles: the final loop "for node in self.functions"
RECURSIVE sc_roots(_, _, _)
sc_roots(g, st, order) ==
  IF order = <<>>
    THEN st
    ELSE sc_roots(g,
                  IF Head(order) \notin DOMAIN st.index
                    THEN strongconnect(g, st, Head(order))
                    ELSE st,
                  Tail(order))

detect_cycles(g, order) ==
  sc_roots(g, [index_counter |-> 0, stack |-> <<>>, lowlinks |-> EmptyDict,
               index |-> EmptyDict, on_stack |-> {}, sccs |-> <<>>], order).sccs

NoResult == [done |-> FALSE, result |-> <<>>]

add_call_dedup(g, fs, caller, callee) ==
  [graph |-> IF \E i \in 1 .. Len(g[caller]) : g[caller][i] = callee
               THEN g
               ELSE [g EXCEPT ![caller] = Append(@, callee)],
   functions |-> fs \cup {caller, callee}]

add_call(g, fs, caller, callee) ==
  [graph |-> [g EXCEPT ![caller] = Append(@, callee)],
   functions |-> fs \cup {caller, callee}]

\* add_call. The driver feeds the edges first and reads the results back
\* afterwards: topo and sccs hold the lists returned for the graph as it is.
\* The function names are arbitrary strings that differ in name only: a
\* builder that first sees its functions in another order is a renaming of
\* one that first sees them in the order A, B, C, D.
FuncOrder == <<"A", "B", "C", "D">>

FirstSeenInOrder(S) ==
  \A i \in 1 .. Len(FuncOrder) :
    FuncOrder[i] \in S => \A j \in 1 .. i : FuncOrder[j] \in S

\* callLog keeps, per caller, the callees of the add_call calls made so far,
\* in call order.
AddCall(caller, callee) ==
  /\ ~topo.done /\ ~sccs.done
  /\ FirstSeenInOrder(functions \cup {caller})
  /\ FirstSeenInOrder(functions \cup {caller, callee})
  /\ SumLen(graph, Funcs) < MaxCalls
  /\ LET a == add_call(graph, functions, caller, callee)
     IN  /\ graph' = a.graph
         /\ functions' = a.functions
  /\ callLog' = [callLog EXCEPT ![caller] = Append(@, callee)]
  /\ UNCHANGED <<topo, sccs, ufVars, gtVars, htVars>>

TopologicalSort ==
  /\ ~topo.done
  /\ \E seeds \in Orders(seed_set(graph, functions)) :
       topo' = [done |-> TRUE, result |-> topological_sort(graph, functions, seeds)]
  /\ UNCHANGED <<graph, functions, callLog, sccs, ufVars, gtVars, htVars>>

DetectCycles ==
  /\ ~sccs.done
  /\ \E order \in Orders(functions) :
       sccs' = [done |-> TRUE, result |-> detect_cycles(graph, order)]
  /\ UNCHANGED <<graph, functions, callLog, topo, ufVars, gtVars, htVars>>

CGNext ==
  \/ \E caller \in Funcs, callee \in Funcs : AddCall(caller, callee)
  \/ TopologicalSort
  \/ DetectCycles

(***************************************************************************)
(* HashTableAllocator                                                      *)
(***************************************************************************)

\* The identities (id(obj)) of the objects handed to track.
TrackedObjects == {"a", "b", "c"}

\* Largest number of track calls.
MaxTracks == 4

\* Largest sys.getsizeof(obj).
MaxSize == 2

Sizes == 1 .. MaxSize

\* The call_stack arguments and the readings of time.time(): opaque values.
CallStacks == {<<"main">>, <<"main", "spawn">>}

Timestamps == {"t1", "t2"}

\* track: self.allocations[obj_id] = {...} ; self.total_allocated += 1
track_counts_new_only(allocs, total, obj_id, size, call_stack, timestamp) ==
  [allocations |-> DictPut(allocs, obj_id,
                           [object |-> obj_id, size |-> size,
                            call_stack |-> call_stack, timestamp |-> timestamp]),
   total_allocated |-> IF obj_id \in DOMAIN allocs THEN total ELSE total + 1]

track_forgets_counter(allocs, total, obj_id, size, call_stack, timestamp) ==
  [allocations |-> DictPut(allocs, obj_id,
                           [object |-> obj_id, size |-> size,
                            call_stack |-> call_stack, timestamp |-> timestamp]),
   total_allocated |-> total]

track(allocs, total, obj_id, size, call_stack, timestamp) ==
  [allocations |-> DictPut(allocs, obj_id,
                           [object |-> obj_id, size |-> size,
                            call_stack |-> call_stack, timestamp |-> timestamp]),
   total_allocated |-> total + 1]

\* sum(a['size'] for a in self.allocations.values())
RECURSIVE SumSizes(_, _)
SumSizes(allocs, S) ==
  IF S = {} THEN 0
  ELSE LET k == CHOOSE e \in S : TRUE IN allocs[k].size + SumSizes(allocs, S \ {k})

get_stats_counts_calls(allocs, total) ==
  [count |-> total,
   total_bytes |-> SumSizes(allocs, DOMAIN allocs),
   total_allocated |-> total]

get_stats(allocs, total) ==
  [count |-> Cardinality(DOMAIN allocs),
   total_bytes |-> SumSizes(allocs, DOMAIN allocs),
   total_allocated |-> total]

NoStats == [done |-> FALSE, count |-> 0, total_bytes |-> 0, total_allocated |-> 0]

\* The track calls made so far: how many, and the size given in the latest
\* call for each identity.
NoTracks == [calls |-> 0, sizes |-> EmptyDict]

\* A dict returned by get_stats describes the registry as it was; it is
\* kept until the next track.
Track(obj_id, size, call_stack, timestamp) ==
  /\ total_allocated < MaxTracks
  /\ LET t == track(allocations, total_allocated, obj_id, size, call_stack, timestamp)
     IN  /\ allocations' = t.allocations
         /\ total_allocated' = t.total_allocated
  /\ tracked' = [calls |-> tracked.calls + 1, sizes |-> DictPut(tracked.sizes, obj_id, size)]
  /\ statsOut' = NoStats
  /\ UNCHANGED <<ufVars, gtVars, cgVars>>

GetStats ==
  /\ LET g == get_stats(allocations, total_allocated)
     IN  statsOut' = [done |-> TRUE, count |-> g.count, total_bytes |-> g.total_bytes,
                      total_allocated |-> g.total_allocated]
  /\ UNCHANGED <<allocations, total_allocated, tracked, ufVars, gtVars, cgVars>>

HTNext ==
  \/ \E obj_id \in TrackedObjects, size \in Sizes, call_stack \in CallStacks, timestamp \in Timestamps :
       Track(obj_id, size, call_stack, timestamp)
  \/ GetStats

(***************************************************************************)
(* Specifications                                                          *)
(***************************************************************************)

\* Every structure is created empty by its driver.
Init ==
  /\ parent = EmptyDict
  /\ rank = EmptyDict
  /\ connected = {}
  /\ ufRet = Ret("none", FALSE, None)
  /\ children = NoChildren
  /\ root = NoObject
  /\ maxDepth = 0
  /\ dfsOut = NoDfs
  /\ bfsOut = NoBfs
  /\ graph = NoCalls
  /\ functions = {}
  /\ topo = NoResult
  /\ sccs = NoResult
  /\ callLog = NoCalls
  /\ allocations = EmptyDict
  /\ total_allocated = 0
  /\ tracked = NoTracks
  /\ statsOut = NoStats

SpecUF == Init /\ [][UFNext]_vars

SpecGT == Init /\ [][GTNext]_vars

SpecCG == Init /\ [][CGNext]_vars

SpecHT == Init /\ [][HTNext]_vars

(***************************************************************************)
(* Properties of UnionFind                                                 *)
(***************************************************************************)

Registered == DOMAIN parent

\* find(x) == find(y) as a caller evaluates it: two calls in a row, the
\* second on the forest the first one left.
SameFind(x, y) ==
  LET fx == find(parent, x)
      fy == find(fx.parent, y)
  IN  fx.value = fy.value

Linked(x, y) == x = y \/ <<x, y>> \in connected

\* The union history of the test: union(0,1) and union(2,3) and nothing else.
TestHistory == {<<0, 1>>, <<1, 0>>, <<2, 3>>, <<3, 2>>}

TestScenario ==
  /\ Registered = 0 .. 4
  /\ connected = TestHistory

\* C1: after any sequence of make_set, union and find calls, two registered
\* elements have the same find() exactly when the unions made so far connect
\* them; after make_set(0..4), union(0,1), union(2,3): find(0) = find(1),
\* find(2) = find(3) and find(0) /= find(2).
C1_FindIffConnected ==
  /\ \A x \in Registered, y \in Registered : SameFind(x, y) <=> Linked(x, y)
  /\ TestScenario => SameFind(0, 1) /\ SameFind(2, 3) /\ ~SameFind(0, 2)

C1_Witness ==
  /\ TestScenario
  /\ ufRet.op = "find"
  /\ \E x \in Registered : parent[x] /= x

\* The root that parent links lead to from x, without re-pointing anything.
RECURSIVE RootOf(_, _)
RootOf(p, x) == IF p[x] = x THEN x ELSE RootOf(p, p[x])

\* p and q partition the same registered elements into the same sets.
SamePartition(p, q) ==
  /\ DOMAIN p = DOMAIN q
  /\ \A a \in DOMAIN p, b \in DOMAIN p :
       (RootOf(p, a) = RootOf(p, b)) <=> (RootOf(q, a) = RootOf(q, b))

\* C9: find(x) on an x never registered with make_set raises (it returns no
\* value) and leaves parent and rank exactly as they were; x is not
\* registered by the call.
C9_FindUnregisteredRaises ==
  [][\A x \in Elements :
       (x \notin DOMAIN parent /\ ufRet'.op = "find" /\ Find(x))
         => /\ ufRet'.raised
            /\ ufRet'.value = None
            /\ parent' = parent
            /\ rank' = rank]_vars

C9_Witness ==
  /\ ufRet.op = "find"
  /\ ufRet.raised
  /\ Registered /= {}
  /\ Registered /= Elements

\* C10: union(x, y) with x or y never registered raises in that same call;
\* no element becomes registered, no rank changes, and the registered
\* elements are partitioned into the same sets as before the call. Stated of
\* the call made in any reachable state (Union(x, y) is enabled in all).
C10_UnionUnregisteredRaises ==
  \A x \in Elements, y \in Elements :
    (x \notin DOMAIN parent \/ y \notin DOMAIN parent)
      => LET u == union(parent, rank, x, y)
         IN  /\ u.raised
             /\ DOMAIN u.parent = DOMAIN parent
             /\ u.rank = rank
             /\ SamePartition(u.parent, parent)

C10_Witness ==
  /\ ufRet.op = "union"
  /\ ufRet.raised
  /\ \E x \in Registered : parent[x] /= x
  /\ Registered /= Elements

\* The elements on the parent path from x up to its root, x and the root
\* included.
RECURSIVE PathOf(_, _)
PathOf(p, x) == IF p[x] = x THEN {x} ELSE {x} \cup PathOf(p, p[x])

\* C11: union(x, y) on elements of two different sets attaches the root of
\* lower rank under the root of higher rank and changes no rank; on equal
\* ranks it attaches y's root under x's root and raises the rank of x's root
\* by exactly one, and find of either element then returns x's former root.
\* Stated of the call made in any reachable state.
C11_UnionByRank ==
  \A x \in Registered, y \in Registered :
    LET rx == RootOf(parent, x)
        ry == RootOf(parent, y)
        u == union(parent, rank, x, y)
    IN  rx /= ry =>
          /\ ~u.raised
          /\ rank[rx] < rank[ry] =>
               /\ u.parent[rx] = ry /\ u.parent[ry] = ry
               /\ u.rank = rank
          /\ rank[rx] > rank[ry] =>
               /\ u.parent[ry] = rx /\ u.parent[rx] = rx
               /\ u.rank = rank
          /\ rank[rx] = rank[ry] =>
               /\ u.parent[ry] = rx /\ u.parent[rx] = rx
               /\ u.rank = [rank EXCEPT ![rx] = rank[rx] + 1]
               /\ find(u.parent, x).value = rx
               /\ find(u.parent, y).value = rx

C11_Witness ==
  /\ ufRet.op = "union"
  /\ ~ufRet.raised
  /\ \E r \in Registered :
       /\ rank[r] = 1
       /\ Cardinality({e \in Registered : parent[e] = r}) = 3
       /\ \A e \in Registered : parent[e] = r /\ e /= r => rank[e] = 0

\* C12: make_set(x) on an unregistered x makes x its own parent with rank 0;
\* on a registered x it changes neither parent nor rank, also when x hangs
\* under another root or has a rank above 0. Stated of the call made in any
\* reachable state.
C12_MakeSet ==
  \A x \in Elements :
    LET m == make_set(parent, rank, x)
    IN  IF x \in Registered
          THEN m.parent = parent /\ m.rank = rank
          ELSE /\ DOMAIN m.parent = Registered \cup {x}
               /\ DOMAIN m.rank = Registered \cup {x}
               /\ m.parent[x] = x
               /\ m.rank[x] = 0
               /\ \A e \in Registered : m.parent[e] = parent[e] /\ m.rank[e] = rank[e]

C12_Witness ==
  /\ ufRet.op = "make_set"
  /\ \E x \in Registered : parent[x] /= x
  /\ \E x \in Registered : rank[x] > 0
  /\ \E x \in Registered : parent[x] = x /\ rank[x] = 0

\* Every element has the same root in p and in q, hence is in the same set.
SameRoots(p, q) ==
  /\ DOMAIN p = DOMAIN q
  /\ \A e \in DOMAIN p : RootOf(p, e) = RootOf(q, e)

\* C13: union(x, y) on two registered elements with the same root changes no
\* rank and moves no element to another set (each keeps its root); a parent
\* link that changes belongs to an element on the path of x or of y and now
\* points to the common root. Stated of the call made in any reachable state.
C13_UnionSameRoot ==
  \A x \in Registered, y \in Registered :
    RootOf(parent, x) = RootOf(parent, y) =>
      LET u == union(parent, rank, x, y)
      IN  /\ ~u.raised
          /\ u.rank = rank
          /\ SameRoots(u.parent, parent)
          /\ \A e \in Registered :
               u.parent[e] /= parent[e] =>
                 /\ u.parent[e] = RootOf(parent, x)
                 /\ e \in PathOf(parent, x) \cup PathOf(parent, y)

\* A set of four elements, all directly under a root of rank 2, with the
\* last call a union that did not raise.
C13_Witness ==
  /\ ufRet.op = "union"
  /\ ~ufRet.raised
  /\ \E r \in Registered :
       /\ rank[r] = 2
       /\ Cardinality({e \in Registered : parent[e] = r}) = 4

\* The element reached from x after n parent links.
RECURSIVE ParentSteps(_, _, _)
ParentSteps(p, x, n) == IF n = 0 THEN x ELSE ParentSteps(p, p[x], n - 1)

IsRoot(p, x) == p[x] = x

\* C21: every parent is a registered element, and following parent links
\* from any registered element reaches an element that is its own parent
\* within as many steps as there are registered elements: the parent
\* mapping has no cycle other than a root's self-link.
C21_ParentLinksReachRoot ==
  /\ DOMAIN rank = Registered
  /\ \A x \in Registered : parent[x] \in Registered
  /\ \A x \in Registered :
       /\ IsRoot(parent, ParentSteps(parent, x, Cardinality(Registered) - 1))
       /\ \A n \in 1 .. Cardinality(Registered) :
            ParentSteps(parent, x, n) = x => IsRoot(parent, x)

C21_Witness ==
  /\ Registered = Elements
  /\ \E x \in Registered :
       /\ ~IsRoot(parent, x)
       /\ ~IsRoot(parent, parent[x])
       /\ IsRoot(parent, parent[parent[x]])

\* C22: find(x) on a registered x returns the root that parent links lead to
\* from x; afterwards every element that was on the path from x to the root
\* has the root as its parent, every other parent link is as it was, and the
\* partition into sets is unchanged (find writes no rank). Stated of the
\* call made in any reachable state.
C22_FindCompressesPath ==
  \A x \in Registered :
    LET f == find(parent, x)
        r == RootOf(parent, x)
    IN  /\ ~f.raised
        /\ f.value = r
        /\ DOMAIN f.parent = Registered
        /\ \A e \in PathOf(parent, x) : f.parent[e] = r
        /\ \A e \in Registered \ PathOf(parent, x) : f.parent[e] = parent[e]
        /\ SameRoots(f.parent, parent)

C22_Witness ==
  /\ ufRet.op = "find"
  /\ ~ufRet.raised
  /\ rank[ufRet.value] = 2
  /\ Cardinality({e \in Registered : parent[e] = ufRet.value}) = 4

\* C23: no make_set, union or find call lowers the rank of a registered
\* element or drops one; a rank changes only in a union of two roots of equal
\* rank, and then only the rank of the root that survives, by plus one.
C23_RankNeverDecreases ==
  [][/\ Registered \subseteq DOMAIN rank'
     /\ \A e \in Registered : rank'[e] >= rank[e]
     /\ LET changed == {e \in Registered : rank'[e] /= rank[e]}
        IN  changed /= {} =>
              /\ ufRet'.op = "union"
              /\ \E r \in Registered :
                   /\ changed = {r}
                   /\ rank'[r] = rank[r] + 1
                   /\ IsRoot(parent, r) /\ IsRoot(parent', r)
                   /\ \E s \in Registered \ {r} :
                        /\ IsRoot(parent, s)
                        /\ parent'[s] = r
                        /\ rank[s] = rank[r]]_vars

C23_Witness ==
  /\ ufRet.op = "union"
  /\ \E r \in Registered, s \in Registered, t \in Registered :
       /\ rank[r] = 2 /\ IsRoot(parent, r)
       /\ rank[s] = 1 /\ parent[s] = r
       /\ rank[t] = 0 /\ IsRoot(parent, t)

\* C28: every registered element that is not a root has a rank strictly
\* smaller than the rank of its parent, also after path compression has
\* re-pointed it.
C28_RankBelowParent ==
  \A x \in Registered : ~IsRoot(parent, x) => rank[x] < rank[parent[x]]

C28_Witness ==
  /\ ufRet.op = "find"
  /\ \E x \in Registered :
       /\ rank[x] = 0
       /\ ~IsRoot(parent, x)
       /\ rank[parent[x]] = 2
       /\ \E m \in Registered : rank[m] = 1 /\ parent[m] = parent[x]

RECURSIVE Pow2(_)
Pow2(n) == IF n = 0 THEN 1 ELSE 2 * Pow2(n - 1)

SetOf(p, r) == {e \in DOMAIN p : RootOf(p, e) = r}

\* C29: a set whose root has rank r contains at least 2^r registered
\* elements, so 2^rank is at most the number of registered elements for
\* every rank.
C29_RankLogBound ==
  /\ \A r \in Registered :
       IsRoot(parent, r) => Cardinality(SetOf(parent, r)) >= Pow2(rank[r])
  /\ \A e \in Registered : Pow2(rank[e]) <= Cardinality(Registered)

C29_Witness ==
  \E r \in Registered :
       /\ IsRoot(parent, r)
       /\ rank[r] = 2
       /\ Cardinality(SetOf(parent, r)) = 5

(***************************************************************************)
(* Properties of GraphTraverser                                            *)
(***************************************************************************)

\* C2: for every object graph, root and max_depth, dfs and bfs return the
\* same set of visited identities.
C2_DfsEqualsBfs ==
  (dfsOut.done /\ bfsOut.done) => dfsOut.visited = bfsOut.visited

\* The same with max_depth >= 0 only.
C2_DfsEqualsBfsNonNegative ==
  (dfsOut.done /\ bfsOut.done /\ maxDepth >= 0) => dfsOut.visited = bfsOut.visited

Elems(seq) == {seq[i] : i \in 1 .. Len(seq)}

NoRepeat(seq) == \A i, j \in 1 .. Len(seq) : seq[i] = seq[j] => i = j

Nodes(log) == [i \in 1 .. Len(log) |-> log[i][1]]

SelfReference(o) == \E i \in 1 .. Len(children[o]) : children[o][i] = o

MutualReference(o, c) ==
  /\ o /= c
  /\ \E i \in 1 .. Len(children[o]) : children[o][i] = c
  /\ \E i \in 1 .. Len(children[c]) : children[c][i] = o

\* C18: dfs and bfs return on every object graph, graphs with self-referencing
\* and mutually referencing nodes included, and expand each identity at most
\* once in a call.  Stated of the calls that can be made on any graph built
\* (no traversal changes the graph): each yields a result, the log of the
\* nodes dfs expanded and the log of the nodes bfs dequeued have no repeated
\* node, and bfs dequeued everything it queued and left the queue empty.
C18_TerminateExpandOnce ==
  \A d \in Depths :
    root = NoObject =>
    LET r == dfs(children, HeadObject, d)
        b == bfs(children, HeadObject, d)
    IN  /\ NoRepeat(Nodes(r.order))
        /\ Elems(Nodes(r.order)) = r.visited
        /\ Len(r.order) <= Cardinality(Objects)
        /\ NoRepeat(Nodes(b.deq))
        /\ b.queue = <<>>
        /\ b.deq = b.enq
        /\ Elems(Nodes(b.deq)) = b.visited
        /\ Len(b.deq) <= Cardinality(Objects)

C18_Witness ==
  /\ dfsOut.done /\ bfsOut.done
  /\ SelfReference("a")
  /\ MutualReference("b", "c")
  /\ dfsOut.visited = {"a", "b", "c"}
  /\ bfsOut.visited = {"a", "b", "c"}

\* A linear chain: chain[1] is the root, every node of the chain references
\* the next one, and whatever else a node of the chain references (its val,
\* the None of the last node) is an object outside the chain that references
\* nothing.
IsChain(chain) ==
  /\ chain[1] = root
  /\ \A i \in 1 .. Len(chain) :
       LET refs == Elems(children[chain[i]])
           next == IF i < Len(chain) THEN {chain[i + 1]} ELSE {}
       IN  /\ next \subseteq refs
           /\ \A c \in refs \ next : children[c] = <<>> /\ c \notin Elems(chain)

\* The sequences of distinct objects that start with prefix and go on along
\* references: the candidates for a chain.
RECURSIVE PathsFrom(_, _)
PathsFrom(ch, prefix) ==
  {prefix} \cup UNION {PathsFrom(ch, Append(prefix, y)) :
                         y \in Elems(ch[prefix[Len(prefix)]]) \ Elems(prefix)}

\* C19: for a linear chain of n nodes starting at the root and
\* max_depth >= n - 1, the set dfs returns and the set bfs returns each
\* contain every node of the chain, so each has at least n members.
C19_ChainFullyVisited ==
  (dfsOut.done \/ bfsOut.done) =>
    \A chain \in PathsFrom(children, <<root>>) :
      (IsChain(chain) /\ maxDepth >= Len(chain) - 1) =>
        /\ dfsOut.done => /\ Elems(chain) \subseteq dfsOut.visited
                          /\ Cardinality(dfsOut.visited) >= Len(chain)
        /\ bfsOut.done => /\ Elems(chain) \subseteq bfsOut.visited
                          /\ Cardinality(bfsOut.visited) >= Len(chain)

C19_Witness ==
  /\ dfsOut.done /\ bfsOut.done
  /\ maxDepth = 2
  /\ IsChain(<<"a", "c", "d">>)
  /\ children["a"] = <<"b", "c">>
  /\ children["d"] = <<"b">>

RECURSIVE Within(_, _, _)
Within(ch, S, n) ==
  IF n <= 0
    THEN S
    ELSE LET T == S \cup UNION {Elems(ch[o]) : o \in S}
         IN  IF T = S THEN S ELSE Within(ch, T, n - 1)

\* The length of a shortest path of references from r to o (o reachable).
Distance(ch, r, o) ==
  CHOOSE n \in 0 .. Cardinality(Objects) :
    /\ o \in Within(ch, {r}, n)
    /\ n > 0 => o \notin Within(ch, {r}, n - 1)

Kind(e) == e[1]

Node(e) == e[2]

Depth(e) == e[3]

\* The dequeue that was the last one before event i: its node is the one
\* being expanded when event i happens.
LastDeqBefore(ev, i) ==
  CHOOSE j \in 1 .. (i - 1) :
    /\ Kind(ev[j]) = "deq"
    /\ \A k \in (j + 1) .. (i - 1) : Kind(ev[k]) /= "deq"

\* C24: in bfs every node is queued with the depth of the node that
\* discovered it plus one, a node is queued once and dequeued with the depth
\* it was queued with, the depths of the dequeued nodes never decrease, and
\* every node of depth d is queued before any node of greater depth is
\* dequeued.
C24_BfsLevelOrder ==
  bfsOut.done =>
    LET ev == bfsOut.events
    IN  /\ ev[1] = <<"enq", root, 0>>
        /\ \A i \in 2 .. Len(ev) :
             Kind(ev[i]) = "enq" =>
               /\ \E j \in 1 .. (i - 1) : Kind(ev[j]) = "deq"
               /\ Depth(ev[i]) = Depth(ev[LastDeqBefore(ev, i)]) + 1
               /\ Node(ev[i]) \in Elems(children[Node(ev[LastDeqBefore(ev, i)])])
        /\ \A i, j \in 1 .. Len(ev) :
             Node(ev[i]) = Node(ev[j]) =>
               /\ Depth(ev[i]) = Depth(ev[j])
               /\ Kind(ev[i]) = Kind(ev[j]) => i = j
        /\ \A i, j \in 1 .. Len(ev) :
             (Kind(ev[i]) = "deq" /\ Kind(ev[j]) = "deq" /\ i < j)
               => Depth(ev[i]) <= Depth(ev[j])
        /\ \A i, j \in 1 .. Len(ev) :
             (Kind(ev[i]) = "enq" /\ Kind(ev[j]) = "deq" /\ Depth(ev[j]) > Depth(ev[i]))
               => i < j

C24_Witness ==
  /\ bfsOut.done
  /\ bfsOut.deq = << <<"a", 0>>, <<"b", 1>>, <<"c", 1>>, <<"d", 2>> >>
  /\ children["c"] = <<"d">>

\* C25: bfs with max_depth >= 0 returns exactly the identities whose
\* shortest-path distance from the root is at most max_depth; each is queued
\* with its distance as depth, and nothing is queued while a node of depth
\* max_depth is the dequeued one.
C25_BfsWithinMaxDepth ==
  (bfsOut.done /\ maxDepth >= 0) =>
    LET ev == bfsOut.events
    IN  /\ bfsOut.visited = Within(children, {root}, maxDepth)
        /\ \A i \in 1 .. Len(ev) :
             /\ Node(ev[i]) \in bfsOut.visited
             /\ Depth(ev[i]) = Distance(children, root, Node(ev[i]))
             /\ Depth(ev[i]) <= maxDepth
             /\ (Kind(ev[i]) = "deq" /\ Depth(ev[i]) = maxDepth /\ i < Len(ev))
                  => Kind(ev[i + 1]) = "deq"

C25_Witness ==
  /\ bfsOut.done
  /\ maxDepth = 1
  /\ children["a"] = <<"b", "c">>
  /\ children["b"] = <<"d">>
  /\ bfsOut.visited = {"a", "b", "c"}

\* The entry of the visit that visit i was called from: the last earlier
\* entry of smaller depth.
CallerOf(o, i) ==
  CHOOSE j \in 1 .. (i - 1) :
    /\ o[j][2] < o[i][2]
    /\ \A k \in (j + 1) .. (i - 1) : o[k][2] >= o[i][2]

\* C26: dfs visits in pre-order and never deeper than max_depth: the root is
\* logged first, every other node right when it is first met, as a child of
\* the node one level up that called for it; every depth is at most
\* max_depth, so every identity of the result is within max_depth references
\* of the root, and the entry after a node visited at depth max_depth is not
\* deeper.
C26_DfsPreOrder ==
  dfsOut.done =>
    LET o == dfsOut.order
    IN  /\ maxDepth < 0 => o = <<>>
        /\ maxDepth >= 0 => Len(o) >= 1 /\ o[1] = <<root, 0>>
        /\ dfsOut.visited = Elems(Nodes(o))
        /\ NoRepeat(Nodes(o))
        /\ \A i \in 1 .. Len(o) : o[i][2] >= 0 /\ o[i][2] <= maxDepth
        /\ \A i \in 2 .. Len(o) :
             /\ o[i][2] >= 1
             /\ o[CallerOf(o, i)][2] = o[i][2] - 1
             /\ o[i][1] \in Elems(children[o[CallerOf(o, i)][1]])
        /\ \A i \in 1 .. (Len(o) - 1) : o[i][2] = maxDepth => o[i + 1][2] <= maxDepth
        /\ dfsOut.visited \subseteq Within(children, {root}, maxDepth)

C26_Witness ==
  /\ dfsOut.done
  /\ maxDepth = 2
  /\ dfsOut.order = << <<"a", 0>>, <<"b", 1>>, <<"c", 2>> >>
  /\ children["c"] = <<"d">>

\* C30: for max_depth >= 0 the set dfs returns is a subset of the set bfs
\* returns for the same graph, root and max_depth, and both contain the root.
C30_DfsSubsetOfBfs ==
  (dfsOut.done /\ bfsOut.done /\ maxDepth >= 0) =>
    /\ dfsOut.visited \subseteq bfsOut.visited
    /\ root \in dfsOut.visited
    /\ root \in bfsOut.visited

C30_Witness ==
  /\ dfsOut.done /\ bfsOut.done
  /\ maxDepth = 2
  /\ dfsOut.visited = {"a", "b", "c"}
  /\ bfsOut.visited = {"a", "b", "c", "d"}

(***************************************************************************)
(* Properties of CallGraphBuilder                                          *)
(***************************************************************************)

Callees(f) == Elems(graph[f])

\* The functions reachable from the functions of S by one or more calls.
RECURSIVE Grow(_)
Grow(S) ==
  LET T == S \cup UNION {Callees(f) : f \in S}
  IN  IF T = S THEN S ELSE Grow(T)

ReachPlus(f) == Grow(Callees(f))

OnCycle(f) == f \in ReachPlus(f)

SelfCall(f) == f \in Callees(f)

Acyclic == \A f \in functions : ~OnCycle(f)

\* The strongly connected component of f.
SCCOf(f) == {f} \cup {h \in ReachPlus(f) \ {f} : f \in ReachPlus(h)}

TopoComplete == Len(topo.result) = Cardinality(functions)

\* C3: the length of topological_sort() equals the number of known functions
\* if and only if detect_cycles() returns an empty list (graphs with
\* self-calls and duplicate edges included).
C3_TopoCompleteIffNoCycles ==
  (topo.done /\ sccs.done) => (TopoComplete <=> sccs.result = <<>>)

\* C3 as amended: the length of topological_sort() equals the number of
\* known functions if and only if detect_cycles() returns an empty list and
\* no function calls itself.
C3_TopoCompleteIffNoCyclesNoSelfCall ==
  (topo.done /\ sccs.done)
    => (TopoComplete <=> (sccs.result = <<>> /\ \A f \in functions : ~SelfCall(f)))

C3_Witness ==
  /\ topo.done /\ sccs.done
  /\ \E f \in functions : SelfCall(f)
  /\ \E f \in functions : ~NoRepeat(graph[f])
  /\ sccs.result = <<>>
  /\ ~TopoComplete

\* C4: each component returned by detect_cycles() is a strongly connected
\* component of the graph (mutually reachable members, maximal), the
\* components are pairwise disjoint, and every strongly connected component
\* with two or more members is returned exactly once.
C4_ComponentsAreSCCs ==
  sccs.done =>
    LET scc == [f \in functions |-> SCCOf(f)]
    IN  /\ \A i \in 1 .. Len(sccs.result) :
             /\ NoRepeat(sccs.result[i])
             /\ \A f \in Elems(sccs.result[i]) : Elems(sccs.result[i]) = scc[f]
        /\ \A i, j \in 1 .. Len(sccs.result) :
             i /= j => Elems(sccs.result[i]) \cap Elems(sccs.result[j]) = {}
        /\ \A f \in functions :
             Cardinality(scc[f]) >= 2
               => Cardinality({i \in 1 .. Len(sccs.result) : Elems(sccs.result[i]) = scc[f]}) = 1

C4_Witness ==
  /\ sccs.done
  /\ Len(sccs.result) = 2
  /\ Elems(sccs.result[1]) \cup Elems(sccs.result[2]) = functions

\* C5: every component returned by detect_cycles() has at least two members;
\* a function on no cycle is never reported, and neither is a function whose
\* only cycle is a call to itself.
C5_NoSingletonComponent ==
  sccs.done =>
    \A i \in 1 .. Len(sccs.result) :
      /\ Cardinality(Elems(sccs.result[i])) >= 2
      /\ \A f \in Elems(sccs.result[i]) : \E h \in ReachPlus(f) : h /= f /\ f \in ReachPlus(h)

C5_Witness ==
  /\ sccs.done
  /\ Len(sccs.result) = 1
  /\ \E f \in functions : SelfCall(f) /\ SCCOf(f) = {f} /\ f \notin Elems(sccs.result[1])
  /\ \E f \in functions : ~OnCycle(f)

\* The graph of add_call(A,B), add_call(B,C), add_call(C,A), add_call(D,A);
\* each caller has one callee, so every insertion order builds this graph.
CycleWithTail == [f \in Funcs |-> IF f = "A" THEN <<"B">>
                                  ELSE IF f = "B" THEN <<"C">>
                                  ELSE IF f = "C" THEN <<"A">>
                                  ELSE <<"A">>]

\* C6: for the edges A->B, B->C, C->A, D->A, whatever the insertion order and
\* the iteration order of the function set, detect_cycles() returns exactly
\* one component, with members {A, B, C}; D is in no component.
C6_CycleWithTail ==
  (sccs.done /\ graph = CycleWithTail) =>
    /\ Len(sccs.result) = 1
    /\ Len(sccs.result[1]) = 3
    /\ Elems(sccs.result[1]) = {"A", "B", "C"}

C6_Witness ==
  /\ sccs.done
  /\ graph = CycleWithTail
  /\ functions = Funcs
  /\ sccs.result[1][1] = "B"

Position(seq, f) == CHOOSE i \in 1 .. Len(seq) : seq[i] = f

\* C7: on a graph with no cycle (no self-call either), topological_sort()
\* returns every known function exactly once, each caller before each of
\* its callees (duplicate edges included).
C7_TopoOrderOnAcyclic ==
  (topo.done /\ Acyclic) =>
    /\ Elems(topo.result) = functions
    /\ NoRepeat(topo.result)
    /\ \A caller \in functions : \A callee \in Callees(caller) :
         Position(topo.result, caller) < Position(topo.result, callee)

C7_Witness ==
  /\ topo.done
  /\ Acyclic
  /\ Cardinality(functions) >= 3
  /\ \E f \in functions : Len(graph[f]) = 2 /\ graph[f][1] = graph[f][2]
  /\ \E f \in functions, h \in functions : f /= h /\ Callees(f) \cap Callees(h) /= {}

\* C8: on a graph with a cycle, topological_sort() returns (without raising)
\* a list strictly shorter than the number of known functions, holding each
\* once exactly the functions that neither are on a cycle nor can be reached
\* from a function on a cycle.
C8_TopoOnCyclic ==
  (topo.done /\ ~Acyclic) =>
    /\ Len(topo.result) < Cardinality(functions)
    /\ NoRepeat(topo.result)
    /\ LET cyclic == {h \in functions : OnCycle(h)}
           tainted == cyclic \cup UNION {ReachPlus(h) : h \in cyclic}
       IN  Elems(topo.result) = functions \ tainted

C8_Witness ==
  /\ topo.done
  /\ ~Acyclic
  /\ Len(topo.result) >= 1
  /\ \E f \in functions : ~OnCycle(f) /\ f \notin Elems(topo.result)

\* C17: add_call(caller, callee) appends callee at the end of caller's list
\* and makes both known functions; repeated pairs are kept.  After any
\* sequence of add_call calls each list is the sequence of callees given for
\* that caller, in call order (callLog only grows, so nothing is removed),
\* the occurrences of a callee equal the number of add_call(caller, callee)
\* calls, and the known functions are exactly the callers and callees given.
C17_AddCallAppends ==
  /\ \A caller \in Funcs :
       /\ graph[caller] = callLog[caller]
       /\ \A callee \in Funcs :
            Occurrences(graph[caller], callee) = Occurrences(callLog[caller], callee)
  /\ functions = {f \in Funcs : callLog[f] /= <<>>}
                   \cup UNION {Elems(callLog[f]) : f \in Funcs}

C17_Witness ==
  /\ graph["A"] = <<"B", "C", "B">>
  /\ graph["C"] = <<"C">>
  /\ functions = {"A", "B", "C"}

\* C27: topological_sort() is deterministic: the list it returned is the
\* list it returns for every order in which the set self.functions may
\* enumerate the zero-in-degree functions, so two builders fed the same
\* add_call calls return the same ordered list.
C27_TopoDeterministic ==
  topo.done =>
    \A seeds \in Orders(seed_set(graph, functions)) :
      topological_sort(graph, functions, seeds) = topo.result

(***************************************************************************)
(* Properties of HashTableAllocator                                        *)
(***************************************************************************)

\* C14: track called again with an identity that already has a record leaves
\* the count of get_stats unchanged, raises its total_allocated by exactly
\* one, and replaces the record: the identity shows the new size, call stack
\* and timestamp, and the other records are untouched.
C14_RetrackReplaces ==
  [][\A obj_id \in TrackedObjects, size \in Sizes, call_stack \in CallStacks,
        timestamp \in Timestamps :
       (obj_id \in DOMAIN allocations /\ Track(obj_id, size, call_stack, timestamp))
         => LET before == get_stats(allocations, total_allocated)
                after == get_stats(allocations', total_allocated')
            IN  /\ after.count = before.count
                /\ after.total_allocated = before.total_allocated + 1
                /\ DOMAIN allocations' = DOMAIN allocations
                /\ allocations'[obj_id] = [object |-> obj_id, size |-> size,
                                           call_stack |-> call_stack,
                                           timestamp |-> timestamp]
                /\ \A o \in DOMAIN allocations \ {obj_id} : allocations'[o] = allocations[o]]_vars

C14_Witness ==
  /\ total_allocated = 3
  /\ DOMAIN allocations = {"a", "b"}
  /\ allocations["a"].size = 2
  /\ allocations["a"].timestamp = "t2"
  /\ allocations["a"].call_stack = <<"main", "spawn">>
  /\ tracked.calls = 3

RECURSIVE SumOf(_, _)
SumOf(f, S) ==
  IF S = {} THEN 0
  ELSE LET k == CHOOSE e \in S : TRUE IN f[k] + SumOf(f, S \ {k})

\* C15: get_stats() returns count = the number of distinct identities
\* tracked, total_bytes = the sum of the sizes given in the latest track of
\* each identity, and total_allocated = the number of track calls made; n
\* distinct objects tracked once each give count = total_allocated = n.
C15_StatsMatchHistory ==
  statsOut.done =>
    /\ statsOut.count = Cardinality(DOMAIN tracked.sizes)
    /\ statsOut.total_bytes = SumOf(tracked.sizes, DOMAIN tracked.sizes)
    /\ statsOut.total_allocated = tracked.calls
    /\ tracked.calls = Cardinality(DOMAIN tracked.sizes)
         => statsOut.count = statsOut.total_allocated

C15_Witness ==
  /\ statsOut.done
  /\ statsOut.count = 2
  /\ statsOut.total_allocated = 4
  /\ statsOut.total_bytes = 3

\* C16: the number of recorded identities is at most total_allocated in
\* every reachable state, and no step lowers total_allocated.
C16_CountAtMostTotal ==
  /\ [](Cardinality(DOMAIN allocations) <= total_allocated)
  /\ [][total_allocated' >= total_allocated]_vars

C16_Witness ==
  /\ Cardinality(DOMAIN allocations) = 1
  /\ total_allocated = MaxTracks


====
